---- MODULE Spec2Model ----
(***************************************************************************)
(* Model of src/src/plugin-main.cpp: the V4L2 multi-planar capture source  *)
(* (session structure v4l2_mplane_source, start_device / stop_device,      *)
(* mplane_create, mplane_update, mplane_tick, mplane_render and the audio  *)
(* thread), together with the kernel objects the code acts on (open file   *)
(* descriptors, the driver's capture queue, memory mappings, the heap      *)
(* blocks of the RGB buffers).                                             *)
(***************************************************************************)
EXTENDS Integers, Sequences, FiniteSets, TLC

\* ------------------------------------------------------------------------
\* Program constants
\* ------------------------------------------------------------------------
BUFFER_COUNT == 4

VIDEO_MAX_PLANES == 8

DEFAULT_W == 640

DEFAULT_H == 480

HD_W == 1280

HD_H == 720

FHD_W == 1920

FHD_H == 1080

DEFAULT_DEVICE == "/dev/video11"

AUDIO_SAMPLE_RATE == 48000

AUDIO_FRAMES == 1024

\* 1000000000ULL, nanoseconds per second
NS_PER_SEC == 1000000000

\* float boost = 24.0f
BOOST == 24

INT16_MAX == 32767

INT16_MIN == -32768

\* integers below this magnitude are exact in a float (24-bit significand)
FLOAT_EXACT == 16777216

\* ------------------------------------------------------------------------
\* Bounds of the model
\* ------------------------------------------------------------------------
\* file descriptors the process may hold open on the video device
MaxFd == 2

\* heap blocks available to bzalloc for the RGB buffers
NAddr == 3

\* frames the driver delivers in one run without reconfiguration
MaxFrames == 3

\* frames the driver delivers in one run with reconfiguration
MaxFramesLive == 2

\* reconfigurations (mplane_update calls that restart the device) in one run
MaxUpdates == 1

\* buffers the driver grants to VIDIOC_REQBUFS
MaxGrant == 2

\* row padding (bytes) a driver may add to bytesperline
Pad == 64

\* frames the driver delivers in one run with reconfiguration and destroy
MaxFramesLife == 1

\* successful audio reads in one run
MaxReads == 2

\* ------------------------------------------------------------------------
\* Value spaces
\* ------------------------------------------------------------------------
BufIdx == 0 .. (BUFFER_COUNT - 1)

Planes == 0 .. (VIDEO_MAX_PLANES - 1)

Fds == 1 .. MaxFd

Addr == 1 .. NAddr

\* a pointer into a mapping: the mapping (0: none) and a byte offset into it
NULL == [reg |-> 0, off |-> 0]

\* the region mmap returns for plane p of buffer i
Region(i, p) == 1 + i * VIDEO_MAX_PLANES + p

\* contents of an RGB buffer: 0 all-zero, f >= 1 the converted frame f,
\* Torn while the converter is part-way through it
Torn == -1

\* settings values the host may hand over
DevSettings == {"", "/dev/video0"}

ResSettings == {"1920x1080", "1280x720", "640x480", ""}

VARIABLES
    \* struct v4l2_mplane_source
    fd, width, height, y_stride, uv_stride, num_planes, num_buffers,
    device_path, buffers, texture, rgb_front, rgb_back, new_frame,
    frame_lock, io_lock, reconfiguring, pcm_handle, audio_running,
    \* kernel and heap objects
    drv, kfds, kbufs, kq, streaming, maps, badUnmaps, pcmOpen,
    rgbAlloc, rgbData, nextFrame,
    \* control state of the threads
    pcC, pcS, si, pcT, tIdx, tW, tFrame, pcR, rR, pcU, uDev, uW, uH, pcA,
    \* history
    reqDev, reqW, reqH, nUpdates, reconf, cleanSince, pubs, lastPub,
    upCount, tEnq, tLate,
    \* mplane_destroy's position
    pcD,
    \* audio thread: frames_read and the block in `buffer`, the two statics of
    \* audio_thread_fn, the monotonic clock, the block handed to the host
    aFrames, aBuf, audio_start_ts, audio_frame_count, clock, outTs, outFrames,
    outBuf,
    \* history of the running audio session: the clock value taken for its
    \* first block, the frames of its blocks; the successful reads of the run
    sessT0, sessFrames, nReads,
    \* the gain, the converter and the timestamp taken alone: input and output
    gIn, gOut, cvIn, cvOut, stIn, stOut,
    \* history of free_mapped_buffers: calls in a row, munmap calls issued by
    \* the last one, whether the last one changed anything
    relSeq, relCalls, relChanged,
    \* history of start_device: it failed at the NV12 split test
    splitFailed

session == <<fd, width, height, y_stride, uv_stride, num_planes, num_buffers,
             device_path, buffers, texture, rgb_front, rgb_back, new_frame,
             frame_lock, io_lock, reconfiguring, pcm_handle, audio_running>>

kernel == <<drv, kfds, kbufs, kq, streaming, maps, badUnmaps, pcmOpen,
            rgbAlloc, rgbData, nextFrame>>

control == <<pcC, pcS, si, pcT, tIdx, tW, tFrame, pcR, rR, pcU, uDev, uW, uH, pcA>>

history == <<reqDev, reqW, reqH, nUpdates, reconf, cleanSince, pubs, lastPub,
             upCount, tEnq, tLate>>

xAudio == <<aFrames, aBuf, audio_start_ts, audio_frame_count, clock, outTs,
            outFrames, outBuf, sessT0, sessFrames, nReads>>

xPure == <<gIn, gOut, cvIn, cvOut, stIn, stOut>>

hRel == <<relSeq, relCalls, relChanged>>

\* what the actions of create, update, tick and render mostly leave alone
other == <<pcD, xAudio, xPure, hRel, splitFailed>>

vars == <<session, kernel, control, history, other>>

\* groups of variables, for the frame conditions
sFmt == <<width, height, y_stride, uv_stride, num_planes>>

sBuf == <<num_buffers, buffers>>

sRgb == <<texture, rgb_front, rgb_back, new_frame>>

sLock == <<frame_lock, io_lock, reconfiguring>>

sAud == <<pcm_handle, audio_running>>

kDev == <<kfds, kbufs, kq, streaming>>

kMap == <<maps, badUnmaps>>

kHeap == <<rgbAlloc, rgbData>>

cTick == <<pcT, tIdx, tW, tFrame>>

cRender == <<pcR, rR>>

cUpd == <<pcU, uDev, uW, uH>>

cStart == <<pcS, si>>

hReq == <<reqDev, reqW, reqH>>

hUpd == <<nUpdates, reconf, cleanSince>>

hPub == <<pubs, lastPub, upCount>>

hTick == <<tEnq, tLate>>

\* ------------------------------------------------------------------------
\* Helpers of the session (plugin-main.cpp)
\* ------------------------------------------------------------------------
\* zero_buffers: memset(s->buffers, 0, sizeof(s->buffers))
ZeroedBuffers ==
    [i \in BufIdx |-> [start |-> [p \in Planes |-> NULL],
                       length |-> [p \in Planes |-> 0]]]

\* munmap(ptr, len) on the kernel's mappings k = [maps, bad]: a pointer that
\* is the base of a live mapping removes it; any other pointer is recorded.
Munmap(k, ptr) ==
    IF ptr.off = 0 /\ ptr.reg \in k.maps
    THEN [k EXCEPT !.maps = @ \ {ptr.reg}]
    ELSE [k EXCEPT !.bad = @ \cup {ptr}]

\* free_mapped_buffers, the primary mapping of one buffer
PrimaryCall(b) ==
    IF b.start[0] # NULL /\ b.length[0] > 0 THEN <<b.start[0]>> ELSE <<>>

\* free_mapped_buffers, the loop over planes 1 .. VIDEO_MAX_PLANES-1
RECURSIVE SecondaryCalls(_, _)
SecondaryCalls(b, p) ==
    IF p >= VIDEO_MAX_PLANES THEN <<>>
    ELSE (IF b.start[p] # NULL /\ b.length[p] > 0 /\ b.start[p] # b.start[0]
          THEN <<b.start[p]>> ELSE <<>>) \o SecondaryCalls(b, p + 1)

\* free_mapped_buffers, the loop over i < num_buffers: the munmap calls in order
RECURSIVE UnmapCalls(_, _, _)
UnmapCalls(bufs, i, n) ==
    IF i >= n THEN <<>>
    ELSE PrimaryCall(bufs[i]) \o SecondaryCalls(bufs[i], 1)
         \o UnmapCalls(bufs, i + 1, n)

RECURSIVE ApplyUnmaps(_, _)
ApplyUnmaps(k, calls) ==
    IF calls = <<>> THEN k
    ELSE ApplyUnmaps(Munmap(k, Head(calls)), Tail(calls))

\* a faulty variant of free_mapped_buffers: the count is left as it was
FreeMappedBuffersKeepCount(bufs, n, m) ==
    /\ LET k == ApplyUnmaps([maps |-> m, bad |-> badUnmaps],
                            UnmapCalls(bufs, 0, n))
       IN /\ maps' = k.maps
          /\ badUnmaps' = k.bad
          /\ relChanged' = (k.maps # m \/ k.bad # badUnmaps
                             \/ bufs # ZeroedBuffers)
    /\ buffers' = ZeroedBuffers
    /\ num_buffers' = n
    /\ relSeq' = IF relSeq < 2 THEN relSeq + 1 ELSE relSeq
    /\ relCalls' = Len(UnmapCalls(bufs, 0, n))

\* free_mapped_buffers(s) on the buffer table bufs with n = s->num_buffers,
\* m the mappings that exist when it is called
FreeMappedBuffers(bufs, n, m) ==
    /\ LET k == ApplyUnmaps([maps |-> m, bad |-> badUnmaps],
                            UnmapCalls(bufs, 0, n))
       IN /\ maps' = k.maps
          /\ badUnmaps' = k.bad
          /\ relChanged' = (k.maps # m \/ k.bad # badUnmaps
                             \/ bufs # ZeroedBuffers \/ n # 0)
    /\ buffers' = ZeroedBuffers
    /\ num_buffers' = 0
    /\ relSeq' = IF relSeq < 2 THEN relSeq + 1 ELSE relSeq
    /\ relCalls' = Len(UnmapCalls(bufs, 0, n))

\* close(s->fd); s->fd = -1: the descriptor goes, and with it the device's
\* queue and streaming state
CloseFd ==
    /\ kfds' = kfds \ {fd}
    /\ kbufs' = 0
    /\ kq' = {}
    /\ streaming' = FALSE
    /\ fd' = -1

\* the failure exits of start_device after buffers were requested:
\* free_mapped_buffers(s); close(s->fd); s->fd = -1; return false
StartUnwind(bufs, m) ==
    /\ FreeMappedBuffers(bufs, num_buffers, m)
    /\ CloseFd
    /\ pcS' = "fail"

\* mplane_create's reading of the "resolution" setting
CreateW(res) == IF res = "1920x1080" THEN FHD_W ELSE IF res = "1280x720" THEN HD_W ELSE DEFAULT_W

CreateH(res) == IF res = "1920x1080" THEN FHD_H ELSE IF res = "1280x720" THEN HD_H ELSE DEFAULT_H

\* mplane_update's reading of the "resolution" setting
UpdateW(res) ==
    IF res = "1920x1080" THEN FHD_W ELSE IF res = "1280x720" THEN HD_W
    ELSE IF res = "640x480" THEN DEFAULT_W ELSE width

UpdateH(res) ==
    IF res = "1920x1080" THEN FHD_H ELSE IF res = "1280x720" THEN HD_H
    ELSE IF res = "640x480" THEN DEFAULT_H ELSE height

\* (dev && dev[0]) ? dev : "/dev/video11"
DevSafe(dev) == IF dev # "" THEN dev ELSE DEFAULT_DEVICE

\* ------------------------------------------------------------------------
\* The driver: what one device answers (fixed for a run)
\*   planes  planes per buffer (1: luma and chroma in one mapping)
\*   pad     row padding added to bytesperline
\*   grant   buffers granted to VIDIOC_REQBUFS
\*   clamp   the device only delivers 1280x720, whatever is requested
\*   short   a single-plane buffer holds the luma bytes only
\*   fmt_ok  VIDIOC_S_FMT succeeds
\*   cur     the format the device is in when VIDIOC_S_FMT is refused
\* ------------------------------------------------------------------------
\* 640x360, a 16:9 mode of the default width
CUR_W == 640

CUR_H == 360

Profile(planes, clamp) ==
    [planes |-> planes, pad |-> Pad, grant |-> MaxGrant, clamp |-> clamp,
     short |-> FALSE, fmt_ok |-> TRUE, cur |-> [w |-> CUR_W, h |-> CUR_H]]

\* a single-plane device that refuses VIDIOC_S_FMT (EBUSY) and stays in its
\* current format
BusyProfile == [Profile(1, FALSE) EXCEPT !.fmt_ok = FALSE]

\* a single-plane device that only delivers 1280x720, and a two-plane
\* device that delivers what is asked for
Profiles == {Profile(1, TRUE), Profile(2, FALSE)}

\* the settings mplane_create is called with
CreateSettings == {"1920x1080", ""}

\* the length the driver reports for plane p of a buffer
PlaneLen(p) ==
    LET y_bytes == IF drv.fmt_ok THEN y_stride * height
                   ELSE drv.cur.w * drv.cur.h
    IN
    IF drv.planes >= 2 THEN (IF p = 0 THEN y_bytes ELSE y_bytes \div 2)
    ELSE IF drv.short THEN y_bytes ELSE y_bytes + y_bytes \div 2

\* ------------------------------------------------------------------------
\* Initial state: mplane_create has zeroed the session, read the settings
\* and is about to call start_device
\* ------------------------------------------------------------------------
\* no frame count handed to the timestamp computation
NoStamp == [t0 |-> 0, q |-> 0, r |-> 0, f |-> 0]

\* no image handed to the converter
NoImage == [w |-> 0, h |-> 0, ys |-> 0, us |-> 0, y |-> <<>>, uv |-> <<>>]

InitSessionOf(profiles) ==
    /\ drv \in profiles
    /\ \E dev \in {""}, res \in CreateSettings :
         /\ device_path = DevSafe(dev)
         /\ width = CreateW(res)
         /\ height = CreateH(res)
         /\ reqDev = DevSafe(dev)
         /\ reqW = CreateW(res)
         /\ reqH = CreateH(res)
    /\ fd = -1 /\ y_stride = 0 /\ uv_stride = 0 /\ num_planes = 0
    /\ num_buffers = 0 /\ buffers = ZeroedBuffers
    /\ texture = 0 /\ rgb_front = 0 /\ rgb_back = 0 /\ new_frame = FALSE
    /\ frame_lock = "free" /\ io_lock = "free" /\ reconfiguring = FALSE
    /\ pcm_handle = 0 /\ audio_running = FALSE
    /\ kfds = {} /\ kbufs = 0 /\ kq = {} /\ streaming = FALSE
    /\ maps = {} /\ badUnmaps = {} /\ pcmOpen = FALSE
    /\ rgbAlloc = {} /\ rgbData = [a \in Addr |-> 0] /\ nextFrame = 1
    /\ pcC = "starting" /\ pcS = "open" /\ si = 0
    /\ pcT = "idle" /\ tIdx = -1 /\ tW = 0 /\ tFrame = 0
    /\ pcR = "idle" /\ rR = 0
    /\ pcU = "idle" /\ uDev = "" /\ uW = 0 /\ uH = 0
    /\ pcA = "none"
    /\ nUpdates = 0 /\ reconf = "none" /\ cleanSince = FALSE
    /\ pubs = 0 /\ lastPub = 0 /\ upCount = [f \in 1 .. MaxFrames |-> 0]
    /\ tEnq = <<>> /\ tLate = FALSE
    /\ pcD = "none"
    /\ aFrames = 0 /\ aBuf = 0 /\ audio_start_ts = 0 /\ audio_frame_count = 0
    /\ clock = 1 /\ outTs = 0 /\ outFrames = 0 /\ outBuf = <<>>
    /\ sessT0 = 0 /\ sessFrames = 0 /\ nReads = 0
    /\ relSeq = 0 /\ relCalls = 0 /\ relChanged = FALSE
    /\ splitFailed = FALSE

InitSession == InitSessionOf(Profiles)

Init ==
    /\ InitSession
    /\ gIn = 0 /\ gOut = <<>>
    /\ cvIn = NoImage /\ cvOut = <<>>
    /\ stIn = NoStamp /\ stOut = <<>>

\* ------------------------------------------------------------------------
\* start_device, step by step
\* ------------------------------------------------------------------------
LowestFree == CHOOSE f \in Fds \ kfds : \A g \in Fds \ kfds : f <= g

\* s->fd = open(s->device_path, O_RDWR | O_NONBLOCK)
StartOpen ==
    /\ pcS = "open"
    /\ \E ok \in BOOLEAN :
         IF ok /\ Fds \ kfds # {}
         THEN /\ fd' = LowestFree
              /\ kfds' = kfds \cup {LowestFree}
              /\ pcS' = "audio"
         ELSE /\ fd' = -1
              /\ kfds' = kfds
              /\ pcS' = "fail"
    /\ splitFailed' = FALSE
    /\ UNCHANGED <<sFmt, sBuf, device_path, sRgb, sLock, sAud, drv, kbufs, kq,
                   streaming, kMap, pcmOpen, kHeap, nextFrame, pcC, si, cTick,
                   cRender, cUpd, pcA, history, pcD, xAudio, xPure, hRel>>

\* audio setup: snd_pcm_open, snd_pcm_set_params, pthread_create
StartAudio ==
    /\ pcS = "audio"
    /\ \E r \in {"nodev", "badparams", "ok"} :
         CASE r = "nodev" ->
                /\ pcm_handle' = 0 /\ audio_running' = FALSE
                /\ pcmOpen' = pcmOpen /\ pcA' = pcA
                /\ pcS' = "fmt"
           [] r = "badparams" ->
                /\ pcm_handle' = 1 /\ audio_running' = FALSE
                /\ pcmOpen' = TRUE /\ pcA' = pcA
                /\ pcS' = "fail"
           [] r = "ok" ->
                /\ pcm_handle' = 1 /\ audio_running' = TRUE
                /\ pcmOpen' = TRUE /\ pcA' = "loop"
                /\ pcS' = "fmt"
    \* an audio session begins when its thread is created
    /\ IF pcA' = "loop"
       THEN /\ sessT0' = 0 /\ sessFrames' = 0
            /\ outTs' = 0 /\ outFrames' = 0 /\ outBuf' = <<>>
       ELSE UNCHANGED <<sessT0, sessFrames, outTs, outFrames, outBuf>>
    /\ UNCHANGED <<fd, sFmt, sBuf, device_path, sRgb, sLock, drv, kDev, kMap,
                   kHeap, nextFrame, pcC, si, cTick, cRender, cUpd, history,
                   pcD, aFrames, aBuf, audio_start_ts, audio_frame_count, clock,
                   nReads, xPure, hRel, splitFailed>>

\* VIDIOC_S_FMT and the canonicalisation of the driver's answer
StartFormat ==
    /\ pcS = "fmt"
    /\ LET ok == drv.fmt_ok IN
         LET w == IF ok /\ drv.clamp THEN HD_W ELSE width
             h == IF ok /\ drv.clamp THEN HD_H ELSE height
             np == IF ok THEN drv.planes ELSE 0
             bpl0 == IF ok THEN w + drv.pad ELSE 0
             bpl1 == IF ok /\ drv.planes >= 2 THEN w + drv.pad ELSE 0
             ys == IF bpl0 > 0 THEN bpl0 ELSE w
         IN /\ width' = w
            /\ height' = h
            /\ num_planes' = IF np > 0 THEN np ELSE 1
            /\ y_stride' = ys
            /\ uv_stride' = IF num_planes' >= 2
                            THEN (IF bpl1 > 0 THEN bpl1 ELSE ys)
                            ELSE ys
    /\ pcS' = "reqbufs"
    /\ UNCHANGED <<fd, sBuf, device_path, sRgb, sLock, sAud, kernel, pcC, si,
                   cTick, cRender, cUpd, pcA, history, other>>

\* the counts VIDIOC_REQBUFS may write back into req.count: the driver's own
\* number, which may be lower than the BUFFER_COUNT asked for, or a number
\* above it when the driver needs more buffers than were requested
Grants == {drv.grant, BUFFER_COUNT + 1}

\* the session's memory is intact: no access outside the buffers array has
\* happened and mplane_destroy has not freed the session (line 758). What a
\* thread does with the session after either is undefined and not followed.
Running == pcS # "overrun" /\ pcC # "destroyed"

\* VIDIOC_REQBUFS
StartReqbufs ==
    /\ pcS = "reqbufs"
    /\ \E count \in {-1, 0} \cup Grants :
         IF count <= 0
         THEN /\ CloseFd
              /\ pcS' = "fail"
              /\ UNCHANGED <<sBuf, si, hRel>>
         ELSE /\ num_buffers' = count
              /\ buffers' = ZeroedBuffers
              /\ kbufs' = count
              /\ si' = 0
              /\ pcS' = "buf"
              /\ relSeq' = 0
              /\ relCalls' = 0
              /\ relChanged' = FALSE
              /\ UNCHANGED <<fd, kfds, kq, streaming>>
    /\ UNCHANGED <<sFmt, device_path, sRgb, sLock, sAud, drv, kMap, pcmOpen,
                   kHeap, nextFrame, pcC, cTick, cRender, cUpd, pcA, history,
                   pcD, xAudio, xPure, splitFailed>>

\* buffer i with planes 0 .. n-1 mapped, each at its own region
MapPlanes(bufs, i, n) ==
    [bufs EXCEPT ![i] =
        [start |-> [p \in Planes |-> IF p < n THEN [reg |-> Region(i, p), off |-> 0]
                                     ELSE @.start[p]],
         length |-> [p \in Planes |-> IF p < n THEN PlaneLen(p) ELSE @.length[p]]]]

\* a faulty variant of SplitPlane: the chroma pointer is the base of the
\* mapping and the chroma length its whole length
SplitPlaneAtBase(bufs, i, y_bytes) ==
    [bufs EXCEPT ![i].start[1] = [reg |-> Region(i, 0), off |-> 0],
                 ![i].length[1] = PlaneLen(0)]

\* buffer i of the single-plane layout: the chroma pointer is an offset
\* into the one mapping
SplitPlane(bufs, i, y_bytes) ==
    [bufs EXCEPT ![i].start[1] = [reg |-> Region(i, 0), off |-> y_bytes],
                 ![i].length[1] = PlaneLen(0) - y_bytes]

RegionsOf(i, n) == {Region(i, p) : p \in 0 .. (n - 1)}

\* the lengths VIDIOC_QUERYBUF may report for plane 0 of one buffer: the
\* full NV12 size, or for a single-plane buffer the luma bytes only
ReportedLens(planes_count, y_bytes) ==
    IF planes_count < 2 THEN {PlaneLen(0), y_bytes} ELSE {PlaneLen(0)}

\* lines 397-398: the one mapping of a single-plane buffer, of length plen
MapSingle(bufs, i, plen) ==
    [MapPlanes(bufs, i, 1) EXCEPT ![i].length[0] = plen]

\* the buffer loop with more buffers granted than s->buffers has slots: the
\* loop stores to s->buffers[BUFFER_COUNT] (lines 375-409), or, leaving early
\* on a failure, free_mapped_buffers reads that slot (lines 91-106). Either
\* access is outside the array; what the program does from there on is
\* undefined and is not followed.
StartBufferOverrun ==
    /\ pcS = "buf"
    /\ num_buffers > BUFFER_COUNT
    /\ pcS' = "overrun"
    /\ UNCHANGED <<session, kernel, pcC, si, cTick, cRender, cUpd, pcA, history,
                   other>>

\* one iteration of the buffer loop: VIDIOC_QUERYBUF, mmap of the planes,
\* VIDIOC_QBUF
StartBuffer ==
    /\ pcS = "buf"
    /\ si < num_buffers
    /\ num_buffers <= BUFFER_COUNT
    /\ LET planes_count == IF drv.planes <= 0 THEN 1 ELSE drv.planes
           y_bytes == y_stride * height
       IN \E r \in {"querybuf", "mmap", "qbuf", "ok"} :
          \E pf \in 0 .. (planes_count - 1) :
          \E plen \in ReportedLens(planes_count, y_bytes) :
            CASE r = "querybuf" ->
                   /\ StartUnwind(buffers, maps)
                   /\ si' = si
                   /\ UNCHANGED splitFailed
              [] r = "mmap" ->
                   \* planes before pf are mapped and recorded
                   /\ StartUnwind(MapPlanes(buffers, si, pf),
                                  maps \cup RegionsOf(si, pf))
                   /\ si' = si
                   /\ UNCHANGED splitFailed
              [] r \in {"qbuf", "ok"} ->
                   IF planes_count < 2 /\ y_bytes >= plen
                   THEN \* "NV12 split exceeds buffer"
                        /\ StartUnwind(MapSingle(buffers, si, plen),
                                       maps \cup RegionsOf(si, 1))
                        /\ si' = si
                        /\ splitFailed' = TRUE
                   ELSE LET mapped == IF planes_count >= 2
                                      THEN MapPlanes(buffers, si, planes_count)
                                      ELSE SplitPlane(MapPlanes(buffers, si, 1),
                                                      si, y_bytes)
                            regs == maps \cup RegionsOf(si, planes_count)
                        IN IF r = "qbuf"
                           THEN /\ StartUnwind(mapped, regs)
                                /\ si' = si
                                /\ UNCHANGED splitFailed
                           ELSE /\ buffers' = mapped
                                /\ maps' = regs
                                /\ kq' = kq \cup {si}
                                /\ si' = si + 1
                                /\ pcS' = IF si + 1 < num_buffers THEN "buf"
                                          ELSE "streamon"
                                /\ UNCHANGED <<fd, kfds, kbufs, streaming,
                                               num_buffers, badUnmaps, hRel,
                                               splitFailed>>
    /\ UNCHANGED <<sFmt, device_path, sRgb, sLock, sAud, drv, pcmOpen, kHeap,
                   nextFrame, pcC, cTick, cRender, cUpd, pcA, history, pcD,
                   xAudio, xPure>>

\* VIDIOC_STREAMON
StartStreamOn ==
    /\ pcS = "streamon"
    /\ \E ok \in BOOLEAN :
         IF ok
         THEN /\ streaming' = TRUE
              /\ pcS' = "alloc"
              /\ UNCHANGED <<fd, kfds, kbufs, kq, sBuf, kMap, hRel>>
         ELSE StartUnwind(buffers, maps)
    /\ UNCHANGED <<sFmt, device_path, sRgb, sLock, sAud, drv, pcmOpen, kHeap,
                   nextFrame, pcC, si, cTick, cRender, cUpd, pcA, history, pcD,
                   xAudio, xPure, splitFailed>>

\* destroy_rgb: the heap after both RGB buffers are freed
AfterDestroyRgb == rgbAlloc \ {rgb_front, rgb_back}

\* bzalloc: the blocks it may return when `used` are allocated. A block some
\* thread still holds a pointer to is told apart; the others are
\* interchangeable, and the lowest stands for them.
AllocChoices(used) ==
    LET free == Addr \ used
        held == free \cap {tW, rR}
        rest == free \ held
    IN held \cup {a \in rest : \A b \in rest : a <= b}

\* alloc_rgb_and_texture, and start_device's exit after it
StartAlloc ==
    /\ pcS = "alloc"
    /\ \E r \in {"nomem", "notex", "ok"} :
       \E a1 \in AllocChoices(AfterDestroyRgb) :
       \E a2 \in AllocChoices(AfterDestroyRgb \cup {a1}) :
         \* new_frame = false discards what was published and not consumed
         /\ pubs' = IF r = "nomem" THEN pubs ELSE 0
         /\ IF r = "ok"
            THEN /\ rgb_front' = a1
                 /\ rgb_back' = a2
                 /\ rgbAlloc' = AfterDestroyRgb \cup {a1, a2}
                 /\ rgbData' = [rgbData EXCEPT ![a1] = 0, ![a2] = 0]
                 /\ new_frame' = FALSE
                 /\ texture' = 1
                 /\ pcS' = "ok"
                 /\ UNCHANGED <<fd, kDev, sBuf, kMap, hRel>>
            ELSE /\ rgb_front' = 0
                 /\ rgb_back' = 0
                 /\ rgbAlloc' = AfterDestroyRgb
                 /\ rgbData' = IF r = "notex"
                               THEN [rgbData EXCEPT ![a1] = 0, ![a2] = 0]
                               ELSE rgbData
                 /\ new_frame' = IF r = "notex" THEN FALSE ELSE new_frame
                 /\ texture' = IF r = "notex" THEN 0 ELSE texture
                 \* stop_streaming(s->fd); free_mapped_buffers(s); close(s->fd)
                 /\ StartUnwind(buffers, maps)
    /\ UNCHANGED <<sFmt, device_path, sLock, sAud, drv, pcmOpen, nextFrame,
                   pcC, si, cTick, cRender, cUpd, pcA, hReq, hUpd, lastPub,
                   upCount, hTick, pcD, xAudio, xPure, splitFailed>>

StartDevice ==
    \/ StartOpen
    \/ StartAudio
    \/ StartFormat
    \/ StartReqbufs
    \/ StartBuffer
    \/ StartStreamOn
    \/ StartAlloc
    \/ StartBufferOverrun

\* ------------------------------------------------------------------------
\* mplane_create, after start_device has returned
\* ------------------------------------------------------------------------
CreateReturn ==
    /\ pcC = "starting"
    /\ pcS \in {"ok", "fail"}
    /\ IF pcS = "ok"
       THEN /\ pcC' = "live"
            /\ UNCHANGED <<sRgb, kHeap>>
       ELSE \* destroy_texture(s); destroy_rgb(s); bfree(s)
            /\ pcC' = "freed"
            /\ texture' = 0
            /\ rgb_front' = 0
            /\ rgb_back' = 0
            /\ rgbAlloc' = AfterDestroyRgb
            /\ UNCHANGED <<new_frame, rgbData>>
    /\ pcS' = "idle"
    /\ UNCHANGED <<fd, sFmt, sBuf, device_path, sLock, sAud, drv, kDev, kMap,
                   pcmOpen, nextFrame, si, cTick, cRender, cUpd, pcA, history, other>>

\* ------------------------------------------------------------------------
\* mplane_tick (the video step), one action per access to shared state
\* ------------------------------------------------------------------------
\* if (s->reconfiguring) { os_sleep_ms(5); return; }
TickEnter ==
    /\ Running
    /\ pcC = "live"
    /\ pcT = "idle"
    /\ tIdx' = -1
    /\ tW' = 0
    /\ tFrame' = 0
    /\ tEnq' = <<>>
    /\ tLate' = (reconf = "failed" /\ pcU = "idle")
    /\ pcT' = IF reconfiguring THEN "idle" ELSE "chkfd"
    /\ UNCHANGED <<session, kernel, pcC, cStart, cRender, cUpd, pcA, hReq,
                   hUpd, hPub, other>>

\* if (s->fd < 0) return;
TickCheckFd ==
    /\ Running
    /\ pcT = "chkfd"
    /\ pcT' = IF fd < 0 THEN "idle" ELSE "dq"
    /\ UNCHANGED <<session, kernel, pcC, cStart, tIdx, tW, tFrame, cRender,
                   cUpd, pcA, history, other>>

\* the driver can hand over a filled buffer
CanDequeue(cap) == fd \in kfds /\ streaming /\ kq # {} /\ nextFrame <= cap

\* ioctl(s->fd, VIDIOC_DQBUF, &buf): -1 stands for EAGAIN or an error
TickDequeue(cap) ==
    /\ Running
    /\ pcT = "dq"
    /\ \E r \in {-1} \cup (IF CanDequeue(cap) THEN kq ELSE {}) :
         IF r < 0
         THEN /\ pcT' = "idle"
              /\ UNCHANGED <<kq, nextFrame, tIdx, tFrame>>
         ELSE /\ kq' = kq \ {r}
              /\ tIdx' = r
              /\ tFrame' = nextFrame
              /\ nextFrame' = nextFrame + 1
              /\ pcT' = "planes"
    /\ UNCHANGED <<session, drv, kfds, kbufs, streaming, kMap, pcmOpen, kHeap,
                   pcC, cStart, tW, cRender, cUpd, pcA, history, other>>

\* the plane pointers located for buffer idx (lines 646-654)
YPlane(idx) == buffers[idx].start[0]

UvPlane(idx) ==
    IF buffers[idx].start[1] # NULL THEN buffers[idx].start[1]
    ELSE IF YPlane(idx) # NULL
         THEN [YPlane(idx) EXCEPT !.off = @ + y_stride * height]
         ELSE NULL

\* the conversion runs: a valid index, both planes and a back buffer
WillConvert(idx) ==
    /\ idx >= 0
    /\ idx < num_buffers
    /\ YPlane(idx) # NULL
    /\ UvPlane(idx) # NULL
    /\ rgb_back # 0

\* a faulty variant of AfterDequeue: a skipped conversion returns without
\* resubmitting the buffer
AfterDequeueDrop(conv) == IF conv THEN "conv" ELSE "idle"

\* where the step goes after the dequeue: into the converter, or straight
\* to the resubmission
AfterDequeue(conv) == IF conv THEN "conv" ELSE "requeue"

\* lines 645-657: locate the planes and enter nv12_to_bgra(s->rgb_back, ...)
TickPlanes ==
    /\ Running
    /\ pcT = "planes"
    /\ pcT' = AfterDequeue(WillConvert(tIdx))
    /\ IF WillConvert(tIdx)
       THEN /\ tW' = rgb_back
            /\ rgbData' = [rgbData EXCEPT ![rgb_back] = Torn]
       ELSE UNCHANGED <<tW, rgbData>>
    /\ UNCHANGED <<session, drv, kDev, kMap, pcmOpen, rgbAlloc, nextFrame, pcC,
                   cStart, tIdx, tFrame, cRender, cUpd, pcA, history, other>>

\* nv12_to_bgra returns: the block it was given holds the whole frame
TickConvert ==
    /\ Running
    /\ pcT = "conv"
    /\ rgbData' = [rgbData EXCEPT ![tW] = tFrame]
    /\ pcT' = "lock"
    /\ UNCHANGED <<session, drv, kDev, kMap, pcmOpen, rgbAlloc, nextFrame, pcC,
                   cStart, tIdx, tW, tFrame, cRender, cUpd, pcA, history, other>>

\* pthread_mutex_lock(&s->frame_lock)
TickLock ==
    /\ Running
    /\ pcT = "lock"
    /\ frame_lock = "free"
    /\ frame_lock' = "tick"
    /\ pcT' = "swap"
    /\ UNCHANGED <<fd, sFmt, sBuf, device_path, sRgb, io_lock, reconfiguring,
                   sAud, kernel, pcC, cStart, tIdx, tW, tFrame, cRender, cUpd,
                   pcA, history, other>>

\* the new front buffer of the swap (lines 660-662)
SwapFront(front, back) == back

\* the flag the swap leaves (line 663)
PublishedFlag == TRUE

\* swap front and back, set new_frame, unlock
TickSwap ==
    /\ Running
    /\ pcT = "swap"
    /\ rgb_front' = SwapFront(rgb_front, rgb_back)
    /\ rgb_back' = rgb_front
    /\ new_frame' = PublishedFlag
    /\ frame_lock' = "free"
    /\ pcT' = "requeue"
    /\ pubs' = pubs + 1
    /\ lastPub' = tFrame
    /\ cleanSince' = FALSE
    /\ UNCHANGED <<fd, sFmt, sBuf, device_path, texture, io_lock, reconfiguring,
                   sAud, kernel, pcC, cStart, tIdx, tW, tFrame, cRender, cUpd,
                   pcA, hReq, nUpdates, reconf, upCount, hTick, other>>

\* the driver can take buffer idx back
CanEnqueue(idx) == fd \in kfds /\ idx >= 0 /\ idx < kbufs /\ idx \notin kq

\* ioctl(s->fd, VIDIOC_QBUF, &qbuf) with qbuf.index = buf.index; a failure
\* is logged
TickRequeue ==
    /\ Running
    /\ pcT = "requeue"
    /\ \E ok \in BOOLEAN :
         kq' = IF ok /\ CanEnqueue(tIdx) THEN kq \cup {tIdx} ELSE kq
    /\ tEnq' = Append(tEnq, tIdx)
    /\ pcT' = "idle"
    /\ UNCHANGED <<session, drv, kfds, kbufs, streaming, kMap, pcmOpen, kHeap,
                   nextFrame, pcC, cStart, tIdx, tW, tFrame, cRender, cUpd,
                   pcA, hReq, hUpd, hPub, tLate, other>>

Tick(cap) ==
    \/ TickEnter
    \/ TickCheckFd
    \/ TickDequeue(cap)
    \/ TickPlanes
    \/ TickConvert
    \/ TickLock
    \/ TickSwap
    \/ TickRequeue

\* ------------------------------------------------------------------------
\* mplane_render (the consumer)
\* ------------------------------------------------------------------------
\* if (!s || !s->texture) return;
RenderEnter ==
    /\ Running
    /\ pcC = "live"
    /\ pcR = "idle"
    /\ pcR' = IF texture = 0 THEN "idle" ELSE "lock"
    /\ UNCHANGED <<session, kernel, pcC, cStart, cTick, rR, cUpd, pcA, history, other>>

\* pthread_mutex_lock(&s->frame_lock)
RenderLock ==
    /\ Running
    /\ pcR = "lock"
    /\ frame_lock = "free"
    /\ frame_lock' = "render"
    /\ pcR' = "crit"
    /\ UNCHANGED <<fd, sFmt, sBuf, device_path, sRgb, io_lock, reconfiguring,
                   sAud, kernel, pcC, cStart, cTick, rR, cUpd, pcA, history, other>>

\* the flag the consume leaves (line 694)
ConsumedFlag == FALSE

\* if (s->new_frame) { s->new_frame = false; do_upload = true; } and unlock;
\* without an upload the call goes on to draw and returns
RenderConsume ==
    /\ Running
    /\ pcR = "crit"
    /\ IF new_frame
       THEN /\ new_frame' = ConsumedFlag
            /\ pubs' = 0
            /\ pcR' = "upl"
       ELSE /\ pcR' = "idle"
            /\ UNCHANGED <<new_frame, pubs>>
    /\ frame_lock' = "free"
    /\ UNCHANGED <<fd, sFmt, sBuf, device_path, texture, rgb_front, rgb_back,
                   io_lock, reconfiguring, sAud, kernel, pcC, cStart, cTick,
                   rR, cUpd, pcA, hReq, hUpd, lastPub, upCount, hTick, other>>

\* gs_texture_set_image(s->texture, s->rgb_front, ...): the argument is read
\* and the copy begins
RenderUploadBegin ==
    /\ Running
    /\ pcR = "upl"
    /\ rR' = rgb_front
    /\ pcR' = "reading"
    /\ UNCHANGED <<session, kernel, pcC, cStart, cTick, cUpd, pcA, history, other>>

\* the copy ends, then the draw calls; the frame that went to the texture
\* is counted
RenderUploadEnd ==
    /\ Running
    /\ pcR = "reading"
    /\ upCount' = IF rR \in Addr /\ rgbData[rR] \in DOMAIN upCount
                  THEN [upCount EXCEPT ![rgbData[rR]] = @ + 1]
                  ELSE upCount
    /\ rR' = 0
    /\ pcR' = "idle"
    /\ UNCHANGED <<session, kernel, pcC, cStart, cTick, cUpd, pcA, hReq, hUpd,
                   pubs, lastPub, hTick, other>>

Render ==
    \/ RenderEnter
    \/ RenderLock
    \/ RenderConsume
    \/ RenderUploadBegin
    \/ RenderUploadEnd

\* ------------------------------------------------------------------------
\* audio_thread_fn
\* ------------------------------------------------------------------------
\* while (s->audio_running) { if (!s->pcm_handle) break; ...
AudioLoop ==
    /\ Running
    /\ pcA = "loop"
    /\ pcA' = IF audio_running /\ pcm_handle # 0 THEN "read" ELSE "exited"
    /\ UNCHANGED <<session, kernel, pcC, cStart, cTick, cRender, cUpd, history, other>>

\* snd_pcm_readi returns a negative count: snd_pcm_prepare; continue
AudioReadFail ==
    /\ Running
    /\ pcA = "read"
    /\ pcA' = "loop"
    /\ UNCHANGED <<session, kernel, pcC, cStart, cTick, cRender, cUpd, history, other>>

\* the frame counts a successful snd_pcm_readi returns
ReadSizes == {AUDIO_FRAMES, AUDIO_FRAMES \div 2}

\* the sample values a block holds (one value stands for the block)
AudioSamples == {-1366, 1365}

\* snd_pcm_readi returns frames_read >= 0 with the block in `buffer`; time
\* has passed while it blocked
AudioRead ==
    /\ Running
    /\ pcA = "read"
    /\ nReads < MaxReads
    /\ \E f \in ReadSizes, x \in AudioSamples :
         /\ aFrames' = f
         /\ aBuf' = x
    /\ nReads' = nReads + 1
    /\ clock' = clock + 1
    /\ pcA' = "boost"
    /\ UNCHANGED <<session, kernel, pcC, cStart, cTick, cRender, cUpd, history,
                   pcD, audio_start_ts, audio_frame_count, outTs, outFrames,
                   outBuf, sessT0, sessFrames, xPure, hRel, splitFailed>>

\* int16 -> float and the float product, rounded to the 24-bit significand
\* (to nearest, ties to even) for magnitudes below 2 * FLOAT_EXACT
ToFloat(n) ==
    IF -FLOAT_EXACT <= n /\ n <= FLOAT_EXACT THEN n
    ELSE IF n % 2 = 0 THEN n
    ELSE IF (n + 1) % 4 = 0 THEN n + 1 ELSE n - 1

\* (int16_t) of a 32-bit value: the low 16 bits, read as signed
Int16Cast(v) == ((v - INT16_MIN) % (2 * (INT16_MAX + 1))) + INT16_MIN

\* a faulty variant of Gain: the product is stored without the clamp
GainWrap(x) == Int16Cast(ToFloat(ToFloat(x) * BOOST))

\* lines 234-239: tmp = (int32_t) buffer[i] * boost, clamped, stored
Gain(x) ==
    LET tmp == ToFloat(ToFloat(x) * BOOST)
        hi == IF tmp > INT16_MAX THEN INT16_MAX ELSE tmp
        lo == IF hi < INT16_MIN THEN INT16_MIN ELSE hi
    IN Int16Cast(lo)

\* the gain loop over the block (lines 232-240)
AudioBoost ==
    /\ Running
    /\ pcA = "boost"
    /\ aBuf' = Gain(aBuf)
    /\ pcA' = "emit"
    /\ UNCHANGED <<session, kernel, pcC, cStart, cTick, cRender, cUpd, history,
                   pcD, aFrames, audio_start_ts, audio_frame_count, clock, outTs,
                   outFrames, outBuf, sessT0, sessFrames, nReads, xPure, hRel,
                   splitFailed>>

\* audio_frame_count * 1000000000ULL / AUDIO_SAMPLE_RATE for a count n whose
\* product stays below 2^64: the quotient, evaluated as n * q + (n * r) / R
\* with 10^9 = q * R + r so that no intermediate value leaves the integers
\* of the checker
OffsetNs(n) ==
    n * (NS_PER_SEC \div AUDIO_SAMPLE_RATE)
      + (n * (NS_PER_SEC % AUDIO_SAMPLE_RATE)) \div AUDIO_SAMPLE_RATE

\* lines 242-261: stamp the block and hand it to the host
AudioEmit ==
    /\ Running
    /\ pcA = "emit"
    /\ LET start == IF audio_start_ts = 0 THEN clock ELSE audio_start_ts
       IN /\ audio_start_ts' = start
          /\ outTs' = start + OffsetNs(audio_frame_count)
    /\ audio_frame_count' = audio_frame_count + aFrames
    /\ outFrames' = aFrames
    /\ outBuf' = <<aBuf>>
    /\ sessT0' = IF sessFrames = 0 THEN clock ELSE sessT0
    /\ sessFrames' = sessFrames + aFrames
    /\ pcA' = "loop"
    /\ UNCHANGED <<session, kernel, pcC, cStart, cTick, cRender, cUpd, history,
                   pcD, aFrames, aBuf, clock, nReads, xPure, hRel, splitFailed>>

\* the audio thread on a device that delivers no data
AudioMute ==
    \/ AudioLoop
    \/ AudioReadFail

Audio ==
    \/ AudioLoop
    \/ AudioReadFail
    \/ AudioRead
    \/ AudioBoost
    \/ AudioEmit

\* ------------------------------------------------------------------------
\* mplane_update (reconfigure)
\* ------------------------------------------------------------------------
\* the test that makes the call a no-op (lines 573-576)
Unchanged(dev, w, h) ==
    /\ device_path = DevSafe(dev)
    /\ w = width
    /\ h = height

\* lines 546-581: read the settings; return if nothing changed, else raise
\* the reconfiguring flag
UpdateEnter ==
    /\ Running
    /\ pcC = "live"
    \* the host makes no new settings call once it has begun to destroy the source
    /\ pcD = "none"
    /\ pcU = "idle"
    /\ nUpdates < MaxUpdates
    /\ \E dev \in DevSettings, res \in ResSettings :
         LET w == UpdateW(res)
             h == UpdateH(res)
         IN IF Unchanged(dev, w, h)
            THEN UNCHANGED <<reconfiguring, cUpd, nUpdates>>
            ELSE /\ reconfiguring' = TRUE
                 /\ uDev' = DevSafe(dev)
                 /\ uW' = w
                 /\ uH' = h
                 /\ pcU' = "lockio"
                 /\ nUpdates' = nUpdates + 1
    /\ UNCHANGED <<fd, sFmt, sBuf, device_path, sRgb, frame_lock, io_lock, sAud,
                   kernel, pcC, cStart, cTick, cRender, pcA, hReq, reconf,
                   cleanSince, hPub, hTick, other>>

\* a faulty variant of UpdateLockIo: the frame lock is taken first
UpdateLockFrameFirst ==
    /\ Running
    /\ pcU = "lockio"
    /\ frame_lock = "free"
    /\ frame_lock' = "update"
    /\ pcU' = "lockfr"
    /\ UNCHANGED <<fd, sFmt, sBuf, device_path, sRgb, io_lock, reconfiguring,
                   sAud, kernel, pcC, cStart, cTick, cRender, uDev, uW, uH, pcA,
                   history, other>>

\* pthread_mutex_lock(&s->io_lock)
UpdateLockIo ==
    /\ Running
    /\ pcU = "lockio"
    /\ io_lock = "free"
    /\ io_lock' = "update"
    /\ pcU' = "lockfr"
    /\ UNCHANGED <<fd, sFmt, sBuf, device_path, sRgb, frame_lock, reconfiguring,
                   sAud, kernel, pcC, cStart, cTick, cRender, uDev, uW, uH, pcA,
                   history, other>>

\* pthread_mutex_lock(&s->frame_lock)
UpdateLockFrame ==
    /\ Running
    /\ pcU = "lockfr"
    /\ frame_lock = "free"
    /\ frame_lock' = "update"
    /\ pcU' = "stopaudio"
    /\ UNCHANGED <<fd, sFmt, sBuf, device_path, sRgb, io_lock, reconfiguring,
                   sAud, kernel, pcC, cStart, cTick, cRender, uDev, uW, uH, pcA,
                   history, other>>

\* stop_device: if (s->audio_running) { s->audio_running = false; ...
UpdateStopAudio ==
    /\ Running
    /\ pcU = "stopaudio"
    /\ IF audio_running
       THEN /\ audio_running' = FALSE
            /\ pcU' = "join"
       ELSE /\ pcU' = "stopdev"
            /\ UNCHANGED audio_running
    /\ UNCHANGED <<fd, sFmt, sBuf, device_path, sRgb, sLock, pcm_handle, kernel,
                   pcC, cStart, cTick, cRender, uDev, uW, uH, pcA, history, other>>

\* stop_device: ... pthread_join(s->audio_thread, NULL); }
UpdateJoin ==
    /\ Running
    /\ pcU = "join"
    /\ pcA = "exited"
    /\ pcA' = "none"
    /\ pcU' = "stopdev"
    /\ UNCHANGED <<session, kernel, pcC, cStart, cTick, cRender, uDev, uW, uH,
                   history, other>>

\* stop_device, the rest: close the audio device, stop_streaming,
\* free_mapped_buffers, close the video device
UpdateStopDevice ==
    /\ Running
    /\ pcU = "stopdev"
    /\ pcm_handle' = 0
    /\ pcmOpen' = IF pcm_handle # 0 THEN FALSE ELSE pcmOpen
    /\ FreeMappedBuffers(buffers, num_buffers, maps)
    /\ IF fd >= 0 THEN CloseFd ELSE UNCHANGED <<fd, kDev>>
    /\ pcU' = "destroy"
    /\ UNCHANGED <<sFmt, device_path, sRgb, sLock, audio_running, drv, kHeap,
                   nextFrame, pcC, cStart, cTick, cRender, uDev, uW, uH, pcA,
                   history, pcD, xAudio, xPure, splitFailed>>

\* destroy_texture, destroy_rgb, then the new path and size are stored and
\* start_device is called
UpdateDestroy ==
    /\ Running
    /\ pcU = "destroy"
    /\ texture' = 0
    /\ rgb_front' = 0
    /\ rgb_back' = 0
    /\ rgbAlloc' = AfterDestroyRgb
    /\ device_path' = uDev
    /\ width' = uW
    /\ height' = uH
    /\ reqDev' = uDev
    /\ reqW' = uW
    /\ reqH' = uH
    /\ pcS' = "open"
    /\ pcU' = "start"
    /\ UNCHANGED <<fd, y_stride, uv_stride, num_planes, sBuf, new_frame, sLock,
                   sAud, drv, kDev, kMap, pcmOpen, rgbData, nextFrame, pcC, si,
                   cTick, cRender, uDev, uW, uH, pcA, hUpd, hPub, hTick, other>>

\* lines 595-602, after start_device has returned: on success the front
\* buffer is cleared and new_frame reset
UpdateAfterStart ==
    /\ Running
    /\ pcU = "start"
    /\ pcS \in {"ok", "fail"}
    /\ IF pcS = "ok" /\ rgb_front # 0
       THEN /\ rgbData' = [rgbData EXCEPT ![rgb_front] = 0]
            /\ new_frame' = FALSE
            /\ pubs' = 0
       ELSE UNCHANGED <<rgbData, new_frame, pubs>>
    /\ reconf' = IF pcS = "ok" THEN "ok" ELSE "failed"
    /\ pcS' = "idle"
    /\ pcU' = "unlockfr"
    /\ UNCHANGED <<fd, sFmt, sBuf, device_path, texture, rgb_front, rgb_back,
                   sLock, sAud, drv, kDev, kMap, pcmOpen, rgbAlloc, nextFrame,
                   pcC, si, cTick, cRender, uDev, uW, uH, pcA, hReq, nUpdates,
                   cleanSince, lastPub, upCount, hTick, other>>

\* pthread_mutex_unlock(&s->frame_lock)
UpdateUnlockFrame ==
    /\ Running
    /\ pcU = "unlockfr"
    /\ frame_lock' = "free"
    /\ pcU' = "unlockio"
    /\ UNCHANGED <<fd, sFmt, sBuf, device_path, sRgb, io_lock, reconfiguring,
                   sAud, kernel, pcC, cStart, cTick, cRender, uDev, uW, uH, pcA,
                   history, other>>

\* pthread_mutex_unlock(&s->io_lock): both locks are released
UpdateUnlockIo ==
    /\ Running
    /\ pcU = "unlockio"
    /\ io_lock' = "free"
    /\ pcU' = "clear"
    /\ cleanSince' = (reconf = "ok")
    /\ UNCHANGED <<fd, sFmt, sBuf, device_path, sRgb, frame_lock, reconfiguring,
                   sAud, kernel, pcC, cStart, cTick, cRender, uDev, uW, uH, pcA,
                   hReq, nUpdates, reconf, hPub, hTick, other>>

\* s->reconfiguring = false
UpdateClear ==
    /\ Running
    /\ pcU = "clear"
    /\ reconfiguring' = FALSE
    /\ pcU' = "idle"
    /\ UNCHANGED <<fd, sFmt, sBuf, device_path, sRgb, frame_lock, io_lock, sAud,
                   kernel, pcC, cStart, cTick, cRender, uDev, uW, uH, pcA,
                   history, other>>

Update ==
    \/ UpdateEnter
    \/ UpdateLockIo
    \/ UpdateLockFrame
    \/ UpdateStopAudio
    \/ UpdateJoin
    \/ UpdateStopDevice
    \/ UpdateDestroy
    \/ UpdateAfterStart
    \/ UpdateUnlockFrame
    \/ UpdateUnlockIo
    \/ UpdateClear

\* ------------------------------------------------------------------------
\* mplane_destroy
\* ------------------------------------------------------------------------
\* s->reconfiguring = true
DestroyEnter ==
    /\ Running
    /\ pcC = "live"
    /\ pcD = "none"
    /\ reconfiguring' = TRUE
    /\ pcD' = "lockio"
    /\ UNCHANGED <<fd, sFmt, sBuf, device_path, sRgb, frame_lock, io_lock, sAud,
                   kernel, control, history, xAudio, xPure, hRel, splitFailed>>

\* pthread_mutex_lock(&s->io_lock)
DestroyLockIo ==
    /\ Running
    /\ pcD = "lockio"
    /\ io_lock = "free"
    /\ io_lock' = "destroy"
    /\ pcD' = "stopaudio"
    /\ UNCHANGED <<fd, sFmt, sBuf, device_path, sRgb, frame_lock, reconfiguring,
                   sAud, kernel, control, history, xAudio, xPure, hRel,
                   splitFailed>>

\* a faulty variant of DestroyStopAudio: the flag is cleared but the thread is
\* not waited for
DestroyStopAudioNoJoin ==
    /\ pcD = "stopaudio"
    /\ audio_running' = FALSE
    /\ pcD' = "stopdev"
    /\ UNCHANGED <<fd, sFmt, sBuf, device_path, sRgb, sLock, pcm_handle, kernel,
                   control, history, xAudio, xPure, hRel, splitFailed>>

\* stop_device: if (s->audio_running) { s->audio_running = false; ...
DestroyStopAudio ==
    /\ Running
    /\ pcD = "stopaudio"
    /\ IF audio_running
       THEN /\ audio_running' = FALSE
            /\ pcD' = "join"
       ELSE /\ pcD' = "stopdev"
            /\ UNCHANGED audio_running
    /\ UNCHANGED <<fd, sFmt, sBuf, device_path, sRgb, sLock, pcm_handle, kernel,
                   control, history, xAudio, xPure, hRel, splitFailed>>

\* stop_device: ... pthread_join(s->audio_thread, NULL); }
DestroyJoin ==
    /\ Running
    /\ pcD = "join"
    /\ pcA = "exited"
    /\ pcA' = "none"
    /\ pcD' = "stopdev"
    /\ UNCHANGED <<session, kernel, pcC, cStart, cTick, cRender, cUpd, history,
                   xAudio, xPure, hRel, splitFailed>>

\* stop_device, the rest: close the audio device, stop_streaming,
\* free_mapped_buffers, close the video device
DestroyStopDevice ==
    /\ Running
    /\ pcD = "stopdev"
    /\ pcm_handle' = 0
    /\ pcmOpen' = IF pcm_handle # 0 THEN FALSE ELSE pcmOpen
    /\ FreeMappedBuffers(buffers, num_buffers, maps)
    /\ IF fd >= 0 THEN CloseFd ELSE UNCHANGED <<fd, kDev>>
    /\ pcD' = "destroy"
    /\ UNCHANGED <<sFmt, device_path, sRgb, sLock, audio_running, drv, kHeap,
                   nextFrame, control, history, xAudio, xPure, splitFailed>>

\* destroy_texture(s); destroy_rgb(s)
DestroyRgb ==
    /\ Running
    /\ pcD = "destroy"
    /\ texture' = 0
    /\ rgb_front' = 0
    /\ rgb_back' = 0
    /\ rgbAlloc' = AfterDestroyRgb
    /\ pcD' = "unlock"
    /\ UNCHANGED <<fd, sFmt, sBuf, device_path, new_frame, sLock, sAud, drv,
                   kDev, kMap, pcmOpen, rgbData, nextFrame, control, history,
                   xAudio, xPure, hRel, splitFailed>>

\* pthread_mutex_unlock(&s->io_lock)
DestroyUnlockIo ==
    /\ Running
    /\ pcD = "unlock"
    /\ io_lock' = "free"
    /\ pcD' = "free"
    /\ UNCHANGED <<fd, sFmt, sBuf, device_path, sRgb, frame_lock, reconfiguring,
                   sAud, kernel, control, history, xAudio, xPure, hRel,
                   splitFailed>>

\* pthread_mutex_destroy of both locks; bfree(s). The host calls into the
\* source no more; a thread that still waits for one of the destroyed locks
\* is not followed further.
DestroyFree ==
    /\ Running
    /\ pcD = "free"
    /\ io_lock' = "destroyed"
    /\ frame_lock' = "destroyed"
    /\ pcC' = "destroyed"
    /\ pcD' = "done"
    /\ UNCHANGED <<fd, sFmt, sBuf, device_path, sRgb, reconfiguring, sAud,
                   kernel, cStart, cTick, cRender, cUpd, pcA, history, xAudio,
                   xPure, hRel, splitFailed>>

Destroy ==
    \/ DestroyEnter
    \/ DestroyLockIo
    \/ DestroyStopAudio
    \/ DestroyJoin
    \/ DestroyStopDevice
    \/ DestroyRgb
    \/ DestroyUnlockIo
    \/ DestroyFree

Next ==
    \/ StartDevice
    \/ CreateReturn
    \/ Tick(MaxFramesLive)
    \/ Render
    \/ AudioMute
    \/ Update

Spec == Init /\ [][Next]_vars

\* the capture step and the consumer alone: a session that is never
\* reconfigured
NextExchange ==
    \/ StartDevice
    \/ CreateReturn
    \/ Tick(MaxFrames)
    \/ Render
    \/ AudioMute

SpecExchange == Init /\ [][NextExchange]_vars

\* the capture step and the consumer on every device, the one that refuses
\* the format included
InitCapture ==
    /\ InitSessionOf(Profiles \cup {BusyProfile})
    /\ gIn = 0 /\ gOut = <<>> /\ cvIn = NoImage /\ cvOut = <<>>
    /\ stIn = NoStamp /\ stOut = <<>>

SpecCapture == InitCapture /\ [][NextExchange]_vars

\* the whole life of a session, without the consumer: creation, capture
\* steps, reconfiguration and destruction
NextLife ==
    \/ StartDevice
    \/ CreateReturn
    \/ Tick(MaxFramesLife)
    \/ AudioMute
    \/ Update
    \/ Destroy

SpecLife == Init /\ [][NextLife]_vars

\* the session as mplane_create leaves it for one device and one setting
InitIdle ==
    /\ InitSession
    /\ drv = Profile(2, FALSE)
    /\ width = DEFAULT_W

\* every thread that takes a lock: capture steps, the consumer,
\* reconfiguration and destruction
NextLocks ==
    \/ StartDevice
    \/ CreateReturn
    \/ Tick(MaxFramesLife)
    \/ Render
    \/ AudioMute
    \/ Update
    \/ Destroy

InitLocks ==
    /\ InitIdle
    /\ gIn = 0 /\ gOut = <<>> /\ cvIn = NoImage /\ cvOut = <<>>
    /\ stIn = NoStamp /\ stOut = <<>>

SpecLocks == InitLocks /\ [][NextLocks]_vars

\* the audio side of a session: creation, the audio thread on a device that
\* delivers data, reconfiguration and destruction
NextAudio ==
    \/ StartDevice
    \/ CreateReturn
    \/ Audio
    \/ Update
    \/ Destroy

SpecAudio == Init /\ [][NextAudio]_vars

\* the scheduler runs the audio thread, and its blocking read returns
SpecAudioLive == SpecAudio /\ WF_vars(Audio)

\* ------------------------------------------------------------------------
\* The gain on its own: one sample of any 16-bit value goes through the loop
\* body of lines 232-240
\* ------------------------------------------------------------------------
InitGain ==
    /\ InitIdle
    /\ gIn \in INT16_MIN .. INT16_MAX
    /\ gOut = <<>>
    /\ cvIn = NoImage
    /\ cvOut = <<>>
    /\ stIn = NoStamp /\ stOut = <<>>

ApplyGain ==
    /\ gOut = <<>>
    /\ gOut' = <<Gain(gIn)>>
    /\ UNCHANGED <<session, kernel, control, history, pcD, xAudio, gIn, cvIn,
                   cvOut, stIn, stOut, hRel, splitFailed>>

NextGain == ApplyGain

SpecGain == InitGain /\ [][NextGain]_vars

\* ------------------------------------------------------------------------
\* nv12_to_bgra on its own
\* ------------------------------------------------------------------------
\* n >> 8 on an int: the arithmetic shift, floor(n / 256)
Shr8(n) == n \div 256

\* a faulty variant of Clamp8: the value is stored without the clamp
NoClamp8(n) == n % 256

\* if (c < 0) c = 0; if (c > 255) c = 255; then (uint8_t) c
Clamp8(n) == (IF n < 0 THEN 0 ELSE IF n > 255 THEN 255 ELSE n) % 256

\* the four bytes of pixel (i, j): lines 174-202
Pixel(img, i, j) ==
    LET y == img.y[j * img.ys + i + 1]
        u == img.uv[(j \div 2) * img.us + (i \div 2) * 2 + 1] - 128
        v == img.uv[(j \div 2) * img.us + (i \div 2) * 2 + 2] - 128
        c == y - 16
        d == u
        e == v
        r == Shr8(298 * c + 409 * e + 128)
        g == Shr8(298 * c - 100 * d - 208 * e + 128)
        b == Shr8(298 * c + 516 * d + 128)
    IN <<Clamp8(b), Clamp8(g), Clamp8(r), 255>>

\* the loop body stores the pixel at out = dst + j * width * 4, out[4 * i ..]
WritePixel(dst, img, i, j) ==
    LET base == j * img.w * 4 + 4 * i
        px == Pixel(img, i, j)
    IN [dst EXCEPT ![base + 1] = px[1], ![base + 2] = px[2],
                   ![base + 3] = px[3], ![base + 4] = px[4]]

\* the two loops, from pixel number n = j * width + i on
RECURSIVE ConvertFrom(_, _, _)
ConvertFrom(dst, img, n) ==
    IF n >= img.w * img.h THEN dst
    ELSE ConvertFrom(WritePixel(dst, img, n % img.w, n \div img.w), img, n + 1)

nv12_to_bgra(dst, img) == ConvertFrom(dst, img, 0)

\* a byte of the destination that the converter has not stored to
Untouched == -1

\* the byte found in the padding of a row
PadByte == 7

\* bytes of the destination past the image
Slack == 4

\* the destination before the call
FreshDst(img) == [k \in 1 .. (img.w * img.h * 4 + Slack) |-> Untouched]

\* an image of one colour; rows are ys and us bytes long
FlatImage(w, h, ys, us, Y, U, V) ==
    [w |-> w, h |-> h, ys |-> ys, us |-> us,
     y |-> [k \in 1 .. (ys * h) |-> IF (k - 1) % ys < w THEN Y ELSE PadByte],
     uv |-> [k \in 1 .. (us * (h \div 2)) |->
                IF (k - 1) % us >= w THEN PadByte
                ELSE IF (k - 1) % 2 = 0 THEN U ELSE V]]

\* an image whose every byte depends on its position
CodedImage(w, h, ys, us, seed) ==
    [w |-> w, h |-> h, ys |-> ys, us |-> us,
     y |-> [k \in 1 .. (ys * h) |-> (16 + 37 * (k - 1) + 11 * seed) % 256],
     uv |-> [k \in 1 .. (us * (h \div 2)) |-> (90 + 53 * (k - 1) + 29 * seed) % 256]]

\* even sizes, luma and chroma values, and seeds of the images converted
ConvSizes == {2, 4}

LumaVals == {0, 16, 81, 128, 235, 255}

ChromaVals == {0, 90, 128, 240, 255}

MaxSeed == 7

ConvImages ==
    UNION {{FlatImage(w, h, ys, us, Y, U, V) :
               Y \in LumaVals, U \in ChromaVals, V \in ChromaVals}
           \cup {CodedImage(w, h, ys, us, seed) : seed \in 0 .. MaxSeed} :
           w \in ConvSizes, h \in ConvSizes,
           ys \in ConvSizes \cup {6}, us \in ConvSizes \cup {6}}

InitConv ==
    /\ InitIdle
    /\ gIn = 0
    /\ gOut = <<>>
    /\ cvIn \in {img \in ConvImages : img.ys >= img.w /\ img.us >= img.w}
    /\ cvOut = <<>>
    /\ stIn = NoStamp /\ stOut = <<>>

ApplyConv ==
    /\ cvOut = <<>>
    /\ cvOut' = nv12_to_bgra(FreshDst(cvIn), cvIn)
    /\ UNCHANGED <<session, kernel, control, history, pcD, xAudio, gIn, gOut,
                   cvIn, stIn, stOut, hRel, splitFailed>>

NextConv == ApplyConv

SpecConv == InitConv /\ [][NextConv]_vars

\* ------------------------------------------------------------------------
\* The timestamp of line 255 on its own, in uint64_t arithmetic. A 64-bit
\* value is its eight bytes, lowest first.
\* ------------------------------------------------------------------------
U64_BYTES == 8

BYTE == 256

\* 2^24: counts are given as q * 2^24 + r with q, r below 2^24
HALF == 16777216

U64Of(q, r) ==
    <<r % BYTE, (r \div BYTE) % BYTE, r \div (BYTE * BYTE),
      q % BYTE, (q \div BYTE) % BYTE, q \div (BYTE * BYTE), 0, 0>>

\* carry propagation over column sums from byte i on; what leaves the
\* highest byte is dropped (arithmetic modulo 2^64)
RECURSIVE Carry(_, _, _)
Carry(cols, i, c) ==
    IF i > U64_BYTES THEN <<>>
    ELSE <<(cols[i] + c) % BYTE>> \o Carry(cols, i + 1, (cols[i] + c) \div BYTE)

U64Add(a, b) == Carry([i \in 1 .. U64_BYTES |-> a[i] + b[i]], 1, 0)

\* the sum of a[i] * b[k + 1 - i] for i = 1 .. m
RECURSIVE Column(_, _, _, _)
Column(a, b, k, m) ==
    IF m = 0 THEN 0 ELSE a[m] * b[k + 1 - m] + Column(a, b, k, m - 1)

U64Mul(a, b) == Carry([k \in 1 .. U64_BYTES |-> Column(a, b, k, k)], 1, 0)

\* a / d for a divisor d below 2^23, by long division from the highest byte
\* the remainder carried into byte i: that of bytes i + 1 .. 8
RECURSIVE RemAbove(_, _, _)
RemAbove(a, i, d) ==
    IF i = U64_BYTES THEN 0
    ELSE (RemAbove(a, i + 1, d) * BYTE + a[i + 1]) % d

U64Div(a, d) == [i \in 1 .. U64_BYTES |-> (RemAbove(a, i, d) * BYTE + a[i]) \div d]

\* a < b, compared from the highest byte down to byte i
RECURSIVE LessFrom(_, _, _)
LessFrom(a, b, i) ==
    IF i = 0 THEN FALSE
    ELSE IF a[i] # b[i] THEN a[i] < b[i]
    ELSE LessFrom(a, b, i - 1)

U64Less(a, b) == LessFrom(a, b, U64_BYTES)

\* audio_start_ts + (audio_frame_count * 1000000000ULL / AUDIO_SAMPLE_RATE)
Timestamp(start, count) ==
    U64Add(start,
           U64Div(U64Mul(count, U64Of(NS_PER_SEC \div HALF, NS_PER_SEC % HALF)),
                  AUDIO_SAMPLE_RATE))

\* the smallest frame count whose product with 10^9 reaches 2^64, as
\* WRAP_Q * 2^24 + WRAP_R (18446744074 frames, 106 hours at 48 kHz)
WRAP_Q == 1099

WRAP_R == 8583690

\* blocks before the wrap at which the computation is looked at
MaxBack == 40

\* frame counts of a young thread and of one that nears the wrap, a block of
\* either size, a start time
StampInputs ==
    {[t0 |-> t, q |-> c[1], r |-> c[2] - back * (AUDIO_FRAMES \div 2), f |-> f] :
        t \in {1, HALF - 1}, c \in {<<0, HALF - 1>>, <<WRAP_Q, WRAP_R>>},
        back \in 0 .. MaxBack, f \in ReadSizes}

InitStamp ==
    /\ InitIdle
    /\ gIn = 0 /\ gOut = <<>> /\ cvIn = NoImage /\ cvOut = <<>>
    /\ stIn \in StampInputs
    /\ stOut = <<>>

\* two blocks in a row: the first is stamped at the count stIn gives, then
\* audio_frame_count += frames_read, then the second is stamped
ApplyStamp ==
    /\ stOut = <<>>
    /\ LET start == U64Of(0, stIn.t0)
           count == U64Of(stIn.q, stIn.r)
           after == U64Add(count, U64Of(0, stIn.f))
       IN stOut' = <<Timestamp(start, count), Timestamp(start, after)>>
    /\ UNCHANGED <<session, kernel, control, history, pcD, xAudio, gIn, gOut,
                   cvIn, cvOut, stIn, hRel, splitFailed>>

NextStamp == ApplyStamp

SpecStamp == InitStamp /\ [][NextStamp]_vars

\* ------------------------------------------------------------------------
\* Properties
\* ------------------------------------------------------------------------
\* the step is past its reconfiguring-flag check and has not returned
TickInStep == pcT \in {"chkfd", "dq", "planes", "conv", "lock", "swap", "requeue"}

\* reconfigure has stopped the device and has not finished the restart
UpdateRestarting == pcU \in {"destroy", "start"}

\* C1: the video step never runs concurrently with a reconfigure: no state
\* has the step between its flag check and its requeue while reconfigure is
\* between stopping the device and finishing the restart.
C1_StepNeverOverlapsReconfigure == ~(TickInStep /\ UpdateRestarting)

\* C2: the consumer never observes a half-written frame: no state has the
\* converter writing into an RGB buffer while the render path reads that
\* same buffer for upload.
C2_NoWriteWhileRead == ~(pcT = "conv" /\ pcR = "reading" /\ tW = rR)

\* C3: the consumer never uploads the same frame twice: each published
\* frame is uploaded at most once.
C3_NoFrameUploadedTwice == \A f \in DOMAIN upCount : upCount[f] <= 1

\* C4: after N >= 1 publishes with no consume in between, the next consume
\* sees new_frame set and the front buffer holding the payload of the N-th
\* publish; a consume with no publish since the last one sees new_frame
\* clear and triggers no upload. (pubs counts the publishes since the last
\* consume or the last reset of new_frame by alloc_rgb_and_texture or
\* mplane_update.)
C4_HandoffAtConsume ==
    pcR = "crit" =>
        IF pubs >= 1
        THEN new_frame /\ rgb_front \in Addr /\ rgbData[rgb_front] = lastPub
        ELSE ~new_frame

C4_Handoff ==
    /\ []C4_HandoffAtConsume
    /\ [][(pcR = "crit" /\ pubs = 0) => pcR' # "upl"]_vars

\* C5: a failed start_device leaves nothing behind: the video handle is
\* closed and invalid, no mapping remains, the audio device is closed and
\* no audio thread runs, also after mplane_create has freed the session.
C5_FailedStartUnwinds ==
    (pcS = "fail" \/ pcC = "freed") =>
        /\ fd = -1
        /\ kfds = {}
        /\ maps = {}
        /\ ~pcmOpen
        /\ pcA = "none"

\* C6: after a reconfigure whose restart failed the session has no live
\* device, and a step that begins afterwards gets no further than its fd
\* check (no device call, no change of the session).
C6_FailedReconfigureLeavesNoDevice ==
    (reconf = "failed" /\ pcU = "idle") =>
        /\ fd = -1
        /\ (tLate => pcT \in {"idle", "chkfd"})

\* C7: reconfigure is a no-op whenever the device path and the requested
\* dimensions equal those requested for the current session: a call that
\* gets past the test asks for something else.
C7_SameRequestIsNoOp ==
    [][(pcU = "idle" /\ pcU' = "lockio") =>
          ~(uDev' = reqDev /\ uW' = reqW /\ uH' = reqH)]_vars

\* C8: after a successful reconfigure, from the release of its locks until
\* the first publish that follows, the session streams with the negotiated
\* size, the front RGB buffer is all zero and new_frame is clear.
C8_FrontZeroAfterReconfigure ==
    cleanSince =>
        /\ fd \in kfds
        /\ streaming
        /\ ~new_frame
        /\ rgb_front \in rgbAlloc
        /\ rgbData[rgb_front] = 0

\* C9: every successful dequeue of a step is followed, in that call, by
\* exactly one enqueue attempt of the same index, whether or not the
\* conversion ran; the enqueue, failed or not, leaves the session as it was.
C9_OneRequeueInv ==
    /\ Len(tEnq) <= 1
    /\ (tIdx = -1 => tEnq = <<>>)
    /\ (pcT \in {"planes", "conv", "lock", "swap", "requeue"} =>
            tIdx # -1 /\ tEnq = <<>>)
    /\ (pcT = "idle" /\ tIdx # -1 => tEnq = <<tIdx>>)

C9_OneRequeue ==
    /\ []C9_OneRequeueInv
    /\ [][(pcT = "requeue" /\ pcT' = "idle") => UNCHANGED session]_vars

\* C9 witness: a step has returned after a dequeue whose conversion was
\* skipped, and its one enqueue attempt named the dequeued index
C9_Witness ==
    /\ pcT = "idle"
    /\ tIdx # -1
    /\ tW = 0
    /\ tEnq = <<tIdx>>

\* C10: free_mapped_buffers unmaps every established mapping once and
\* nothing else: no munmap is issued on a pointer that is not the base of a
\* live mapping (a chroma pointer that is an offset into the primary
\* mapping), and no mapping outlives the buffer table.
C10_ReleaseUnmapsExactly ==
    /\ badUnmaps = {}
    /\ (num_buffers = 0 => maps = {})

\* C11: single-plane layout. A mapped buffer with base `base`, length L and
\* Y = y_stride * height has Y < L, chroma pointer base + Y and chroma
\* length L - Y; a start that failed because Y >= L leaves no mapping of any
\* buffer and the device handle closed.
C11_SinglePlaneSplit ==
    /\ \A i \in BufIdx :
          (drv.planes < 2 /\ buffers[i].start[0] # NULL) =>
              LET Y == y_stride * height
                  L == buffers[i].length[0]
              IN /\ Y < L
                 /\ buffers[i].start[1] = [reg |-> buffers[i].start[0].reg, off |-> Y]
                 /\ buffers[i].length[1] = L - Y
    /\ splitFailed =>
          /\ maps = {}
          /\ buffers = ZeroedBuffers
          /\ num_buffers = 0
          /\ fd = -1
          /\ kfds = {}

\* C11 witness: start_device has failed at the split test of the second
\* buffer, after the first was mapped and split
C11_Witness ==
    /\ pcS = "fail"
    /\ splitFailed
    /\ si = 1
    /\ relCalls >= 2

\* C12: releasing the buffers is idempotent. After free_mapped_buffers has
\* run, every buffer entry holds null pointers and zero lengths and the
\* count is 0; a second release with no buffer setup in between issues no
\* munmap and changes nothing.
C12_ReleaseIdempotent ==
    /\ relSeq >= 1 => (buffers = ZeroedBuffers /\ num_buffers = 0)
    /\ relSeq >= 2 => (relCalls = 0 /\ ~relChanged)

C12_Witness ==
    /\ relSeq = 2
    /\ pcD = "destroy"
    /\ badUnmaps = {}

\* the audio thread exists and has not returned
AudioAlive == pcA \in {"loop", "read", "boost", "emit"}

\* a stop_device has cleared the flag and waits for the thread
Joining == pcU = "join" \/ pcD = "join"

\* C13: audio shutdown is ordered. On reconfigure and on destroy the running
\* flag is cleared and the audio thread joined before the audio device is
\* closed: the thread never is in, or about to enter, a read on a closed
\* handle, the handle is closed only when no thread exists, and once the
\* flag is cleared the thread terminates (its read returning).
C13_AudioShutdownOrdered ==
    /\ [](AudioAlive => pcmOpen /\ pcm_handle # 0)
    /\ [][(pcmOpen /\ ~pcmOpen') => (pcA = "none" /\ ~audio_running)]_vars
    /\ (Joining ~> ~AudioAlive)

C13_Witness ==
    /\ pcD = "destroy"
    /\ ~pcmOpen
    /\ pcA = "none"
    /\ nReads >= 1
    /\ nUpdates >= 1

\* C14: audio timestamps follow the frames of the session's own blocks. In
\* every audio session, the one after a reconfiguration included, the block
\* handed to the host carries T0 + floor(F * 10^9 / AUDIO_SAMPLE_RATE), with
\* T0 the clock value taken for the session's first block and F the frames of
\* the session's earlier blocks; a failed read hands over nothing and leaves
\* the frame count alone.
C14_SessionTimestamps ==
    /\ [](outFrames > 0 => outTs = sessT0 + OffsetNs(sessFrames - outFrames))
    /\ [][(pcA = "read" /\ pcA' = "loop")
             => UNCHANGED <<outTs, outFrames, outBuf, audio_frame_count>>]_vars

\* C15: the gain saturates. For every 16-bit sample x the sample handed on
\* is min(32767, max(-32768, 24 * x)): large samples pin at the extremes and
\* never wrap.
C15_GainSaturates ==
    gOut # <<>> =>
        LET p == 24 * gIn
            lo == IF p < -32768 THEN -32768 ELSE p
        IN gOut[1] = IF lo > 32767 THEN 32767 ELSE lo

C15_Witness ==
    /\ gIn = 1366
    /\ gOut = <<32767>>

\* C16: audio is optional. An audio device that cannot be opened or cannot
\* be configured never makes start_device fail: the audio setup always
\* hands over to the video setup.
C16_AudioNeverFailsStart ==
    [][(pcS = "audio" /\ pcS' # "audio") => pcS' = "fmt"]_vars

\* the channel the claim gives for luma Y and offset k
C17_Channel(Y, k) ==
    LET n == (298 * (Y - 16) + k) \div 256
    IN IF n < 0 THEN 0 ELSE IF n > 255 THEN 255 ELSE n

\* C17: the result of nv12_to_bgra. For even width and height exactly
\* width * height * 4 bytes are written; pixel (x, y) takes its luma at
\* y * y_stride + x and its chroma U, V in chroma row y / 2 at bytes
\* 2 * (x / 2) and 2 * (x / 2) + 1; B, G, R are the clamped channels and
\* alpha is 255; flat Y = 235, U = V = 128 gives 255 throughout and flat
\* Y = 16, U = V = 128 gives R = G = B = 0.
C17_ConverterResult ==
    cvOut # <<>> =>
        LET w == cvIn.w
            h == cvIn.h
        IN /\ \A k \in 1 .. Len(cvOut) :
                 (cvOut[k] # Untouched) = (k <= w * h * 4)
           /\ \A x \in 0 .. (w - 1), y \in 0 .. (h - 1) :
                 LET Y == cvIn.y[y * cvIn.ys + x + 1]
                     U == cvIn.uv[(y \div 2) * cvIn.us + 2 * (x \div 2) + 1]
                     V == cvIn.uv[(y \div 2) * cvIn.us + 2 * (x \div 2) + 2]
                     at == 4 * (y * w + x)
                 IN /\ cvOut[at + 1] = C17_Channel(Y, 516 * (U - 128) + 128)
                    /\ cvOut[at + 2] = C17_Channel(Y, -100 * (U - 128) - 208 * (V - 128) + 128)
                    /\ cvOut[at + 3] = C17_Channel(Y, 409 * (V - 128) + 128)
                    /\ cvOut[at + 4] = 255
           /\ \A Y \in {16, 235} :
                 cvIn = FlatImage(w, h, cvIn.ys, cvIn.us, Y, 128, 128) =>
                    \A k \in 1 .. (w * h * 4) :
                       cvOut[k] = IF k % 4 = 0 \/ Y = 235 THEN 255 ELSE 0

C17_Witness ==
    /\ cvOut # <<>>
    /\ cvIn = FlatImage(4, 4, 6, 6, 235, 128, 128)
    /\ cvOut[1] = 255

\* C18: the buffer ownership window. While the converter reads the planes
\* of buffer tIdx the buffer has been dequeued and is not queued again: it
\* is not in the driver's queue and its planes are mapped; and between two
\* steps the application holds no dequeued buffer: the buffer a returned
\* step had dequeued has been through its enqueue.
C18_OwnershipWindow ==
    /\ pcT = "conv" =>
          /\ tIdx \in BufIdx
          /\ tIdx \notin kq
          /\ buffers[tIdx].start[0] # NULL
          /\ buffers[tIdx].start[0].reg \in maps
    /\ (pcT = "idle" /\ tIdx # -1) => tEnq = <<tIdx>>

\* C19: the session's buffer count never exceeds BUFFER_COUNT (4), whatever
\* count the driver grants, so every index below num_buffers addresses a slot
\* of the buffers array.
C19_BufferCountBounded ==
    /\ num_buffers <= 4
    /\ pcS # "overrun"

\* destroy has set the flag and has not yet released the session's resources
DestroyReleasing == pcD \in {"lockio", "stopaudio", "join", "stopdev", "destroy"}

\* C20: destroy fences out the video step. From the moment mplane_destroy
\* sets the reconfiguring flag until it has released the session's resources
\* the flag stays set, in every interleaving with a reconfigure that runs
\* concurrently, and no step that starts in that interval passes the flag
\* check.
C20_DestroyFence ==
    /\ [](DestroyReleasing => reconfiguring)
    /\ [][(DestroyReleasing /\ pcT = "idle") => pcT' # "chkfd"]_vars

\* the threads that take locks
LockThreads == {"tick", "render", "update", "destroy"}

\* the lock a thread is blocked on in pthread_mutex_lock, "none" if it is
\* not blocked
WaitsOn(t) ==
    CASE t = "tick" -> IF pcT = "lock" /\ frame_lock # "free" THEN "frame" ELSE "none"
      [] t = "render" -> IF pcR = "lock" /\ frame_lock # "free" THEN "frame" ELSE "none"
      [] t = "update" -> IF pcU = "lockio" /\ io_lock # "free" THEN "io"
                         ELSE IF pcU = "lockfr" /\ frame_lock # "free" THEN "frame"
                         ELSE "none"
      [] t = "destroy" -> IF pcD = "lockio" /\ io_lock # "free" THEN "io" ELSE "none"

\* the thread that holds a lock
Holder(l) == IF l = "io" THEN io_lock ELSE frame_lock

\* t waits for a lock that u holds
WaitsFor(t, u) == WaitsOn(t) # "none" /\ Holder(WaitsOn(t)) = u

\* the threads reached from t along WaitsFor in at most n steps
RECURSIVE Reach(_, _)
Reach(t, n) ==
    IF n = 0 THEN {}
    ELSE LET next == {u \in LockThreads : WaitsFor(t, u)}
         IN next \cup UNION {Reach(u, n - 1) : u \in next}

\* C21: lock order and deadlock freedom. A thread that holds both locks took
\* io_lock before frame_lock, no thread takes io_lock while it holds
\* frame_lock, no state has threads waiting on each other's locks in a
\* cycle, and mplane_update returns with both locks released and the flag
\* cleared whether the restart succeeded or failed.
C21_LockOrder ==
    /\ [](\A t \in LockThreads : t \notin Reach(t, Cardinality(LockThreads)))
    /\ [](frame_lock = "update" => io_lock = "update")
    /\ [][(io_lock = "free" /\ io_lock' \in LockThreads) => frame_lock # io_lock']_vars
    /\ [][(pcU # "idle" /\ pcU' = "idle")
             => (~reconfiguring' /\ io_lock' # "update" /\ frame_lock' # "update"
                 /\ reconf \in {"ok", "failed"})]_vars

C21_Witness ==
    /\ io_lock = "update"
    /\ frame_lock = "update"
    /\ pcT = "lock"
    /\ pcR = "lock"
    /\ pcD = "lockio"

\* the bytes nv12_to_bgra reads from the luma plane, reads from the chroma
\* plane and writes to dst: one past the highest offset of its loops
LumaExtent == (height - 1) * y_stride + width

ChromaExtent == ((height - 1) \div 2) * uv_stride + ((width - 1) \div 2) * 2 + 2

WriteExtent == width * height * 4

\* rgb_size of alloc_rgb_and_texture
RgbSize == y_stride * height * 4

\* the bytes that are mapped from the chroma pointer the step passes on
ChromaLen(idx) ==
    IF buffers[idx].start[1] # NULL THEN buffers[idx].length[1]
    ELSE buffers[idx].length[0] - y_stride * height

\* C22: the converter stays inside its memory. In a step of a session
\* whose start succeeded, the luma bytes read lie within the mapped length
\* of plane 0, the chroma bytes read within the recorded chroma length, and
\* the bytes written within the back buffer of y_stride * height * 4 bytes.
C22_ConverterInBounds ==
    pcT = "conv" =>
        /\ LumaExtent <= buffers[tIdx].length[0]
        /\ ChromaExtent <= ChromaLen(tIdx)
        /\ WriteExtent <= RgbSize

\* C23: emitted audio timestamps never decrease. Of two blocks emitted one
\* after the other the later one carries a timestamp that is not below the
\* earlier one, for every number of accumulated frames, the product
\* audio_frame_count * 1000000000 being taken modulo 2^64.
C23_TimestampsNeverDecrease ==
    stOut # <<>> => ~U64Less(stOut[2], stOut[1])

====
